---- MODULE Spec2Model ----
(***************************************************************************)
(* Model of src/src/index.ts: the deep-search MCP server.                  *)
(*                                                                         *)
(* JavaScript values are tagged records.  A JavaScript string that the     *)
(* code coerces, tests for emptiness or serializes is a sequence of        *)
(* one-character strings, so that String(), Number() and JSON.stringify    *)
(* are computed character by character.  Tool names and Error messages,    *)
(* which the code only compares or passes on, are TLA+ strings.            *)
(* Numbers are integers or NaN; fractions, infinities and -0 are outside   *)
(* of the model.                                                           *)
(***************************************************************************)
EXTENDS Integers, Sequences, FiniteSets

(***************************************************************************)
(* JavaScript values                                                       *)
(***************************************************************************)
Undefined == [t |-> "undefined"]

Null == [t |-> "null"]

Bool(b) == [t |-> "boolean", v |-> b]

Num(n) == [t |-> "number", nan |-> FALSE, v |-> n]

NaN == [t |-> "number", nan |-> TRUE, v |-> 0]

Str(s) == [t |-> "string", v |-> s]

Arr(a) == [t |-> "array", v |-> a]

\* a plain object: a sequence of <<key, value>> pairs in insertion order
Obj(p) == [t |-> "object", v |-> p]

Digits == <<"0", "1", "2", "3", "4", "5", "6", "7", "8", "9">>

IsDigit(c) == \E i \in 1..10 : Digits[i] = c

DigitVal(c) == (CHOOSE i \in 1..10 : Digits[i] = c) - 1

IsWhiteSpace(c) == c \in {" ", "\t", "\n", "\r"}

RECURSIVE NatToString(_)
NatToString(n) ==
  IF n < 10 THEN <<Digits[n + 1]>>
  ELSE NatToString(n \div 10) \o <<Digits[(n % 10) + 1]>>

\* Number::toString for the integers and NaN
NumberToString(x) ==
  IF x.nan THEN <<"N", "a", "N">>
  ELSE IF x.v < 0 THEN <<"-">> \o NatToString(0 - x.v)
  ELSE NatToString(x.v)

RECURSIVE Join(_, _)
RECURSIVE String(_)
\* String(x) of line 85
String(x) ==
  CASE x.t = "undefined" -> <<"u", "n", "d", "e", "f", "i", "n", "e", "d">>
    [] x.t = "null" -> <<"n", "u", "l", "l">>
    [] x.t = "boolean" -> IF x.v THEN <<"t", "r", "u", "e">>
                          ELSE <<"f", "a", "l", "s", "e">>
    [] x.t = "number" -> NumberToString(x)
    [] x.t = "string" -> x.v
    [] x.t = "array" -> Join(x.v, 1)
    [] x.t = "object" -> <<"[", "o", "b", "j", "e", "c", "t", " ",
                           "O", "b", "j", "e", "c", "t", "]">>

\* Array.prototype.join(","), from element i on: undefined and null
\* elements contribute the empty string
Join(a, i) ==
  IF i > Len(a) THEN <<>>
  ELSE (IF a[i].t \in {"undefined", "null"} THEN <<>> ELSE String(a[i]))
       \o (IF i < Len(a) THEN <<",">> ELSE <<>>)
       \o Join(a, i + 1)

RECURSIVE TrimLeft(_)
TrimLeft(s) ==
  IF s # <<>> /\ IsWhiteSpace(Head(s)) THEN TrimLeft(Tail(s)) ELSE s

RECURSIVE TrimRight(_)
TrimRight(s) ==
  IF s # <<>> /\ IsWhiteSpace(s[Len(s)])
  THEN TrimRight(SubSeq(s, 1, Len(s) - 1)) ELSE s

RECURSIVE DigitsToNat(_, _)
DigitsToNat(s, acc) ==
  IF s = <<>> THEN acc
  ELSE DigitsToNat(Tail(s), 10 * acc + DigitVal(Head(s)))

AllDigits(s) == s # <<>> /\ \A i \in 1..Len(s) : IsDigit(s[i])

\* StringToNumber: white space is trimmed, the empty string is 0, an
\* optionally signed run of decimal digits is its value, the rest is NaN
StringToNumber(s) ==
  LET u == TrimRight(TrimLeft(s))
  IN  IF u = <<>> THEN Num(0)
      ELSE IF AllDigits(u) THEN Num(DigitsToNat(u, 0))
      ELSE IF Head(u) = "-" /\ AllDigits(Tail(u))
           THEN Num(0 - DigitsToNat(Tail(u), 0))
      ELSE IF Head(u) = "+" /\ AllDigits(Tail(u))
           THEN Num(DigitsToNat(Tail(u), 0))
      ELSE NaN

\* Number(x) of line 86
Number(x) ==
  CASE x.t = "undefined" -> NaN
    [] x.t = "null" -> Num(0)
    [] x.t = "boolean" -> IF x.v THEN Num(1) ELSE Num(0)
    [] x.t = "number" -> x
    [] x.t = "string" -> StringToNumber(x.v)
    [] x.t \in {"array", "object"} -> StringToNumber(String(x))

\* ToBoolean of a number: NaN and 0 are falsy
NumberTruthy(x) == ~x.nan /\ x.v # 0

(***************************************************************************)
(* JSON.stringify(value, null, 2)                                          *)
(***************************************************************************)
RECURSIVE QuoteChars(_)
\* the escapes of QuoteJSONString for the characters of the model
QuoteChars(s) ==
  IF s = <<>> THEN <<>>
  ELSE (CASE Head(s) = "\"" -> <<"\\", "\"">>
          [] Head(s) = "\\" -> <<"\\", "\\">>
          [] Head(s) = "\n" -> <<"\\", "n">>
          [] OTHER -> <<Head(s)>>)
       \o QuoteChars(Tail(s))

QuoteJSONString(s) == <<"\"">> \o QuoteChars(s) \o <<"\"">>

\* the gap of the third argument of JSON.stringify: 2 spaces
Gap == <<" ", " ">>

\* the properties JSON.stringify writes: those whose value is not undefined
RECURSIVE Serializable(_)
Serializable(p) ==
  IF p = <<>> THEN <<>>
  ELSE (IF Head(p)[2].t = "undefined" THEN <<>> ELSE <<Head(p)>>)
       \o Serializable(Tail(p))

RECURSIVE SerializeJSONProperty(_, _)
RECURSIVE SerializeJSONArray(_, _, _)
RECURSIVE SerializeJSONObject(_, _, _)
\* the text of a value that is not undefined, at indentation indent
SerializeJSONProperty(x, indent) ==
  CASE x.t = "null" -> <<"n", "u", "l", "l">>
    [] x.t = "boolean" -> String(x)
    [] x.t = "number" -> IF x.nan THEN <<"n", "u", "l", "l">> ELSE String(x)
    [] x.t = "string" -> QuoteJSONString(x.v)
    [] x.t = "array" ->
         IF x.v = <<>> THEN <<"[", "]">>
         ELSE <<"[", "\n">> \o SerializeJSONArray(x.v, 1, indent \o Gap)
              \o <<"\n">> \o indent \o <<"]">>
    [] x.t = "object" ->
         IF Serializable(x.v) = <<>> THEN <<"{", "}">>
         ELSE <<"{", "\n">>
              \o SerializeJSONObject(Serializable(x.v), 1, indent \o Gap)
              \o <<"\n">> \o indent \o <<"}">>

\* the elements of an array from i on, one per line; an undefined element
\* is written as null
SerializeJSONArray(a, i, indent) ==
  IF i > Len(a) THEN <<>>
  ELSE indent
       \o (IF a[i].t = "undefined" THEN <<"n", "u", "l", "l">>
           ELSE SerializeJSONProperty(a[i], indent))
       \o (IF i < Len(a) THEN <<",", "\n">> ELSE <<>>)
       \o SerializeJSONArray(a, i + 1, indent)

\* the properties of an object from i on, one per line
SerializeJSONObject(p, i, indent) ==
  IF i > Len(p) THEN <<>>
  ELSE indent \o QuoteJSONString(p[i][1]) \o <<":", " ">>
       \o SerializeJSONProperty(p[i][2], indent)
       \o (IF i < Len(p) THEN <<",", "\n">> ELSE <<>>)
       \o SerializeJSONObject(p, i + 1, indent)

\* a slip: the result is coerced with String instead of serialized
JSONStringify_asString(value) == Str(String(value))

\* JSON.stringify(value, null, 2) of line 102: undefined for undefined
JSONStringify(value) ==
  IF value.t = "undefined" THEN Undefined
  ELSE Str(SerializeJSONProperty(value, <<>>))

(***************************************************************************)
(* The handlers                                                            *)
(***************************************************************************)
\* the outcomes of a step of an async handler: it throws (the promise is
\* rejected), it returns (the promise is fulfilled), it suspends on the
\* promise of linkupClient.search, or it ends the process
Throw(error) == [out |-> "throw", error |-> error]

Return(value) == [out |-> "return", value |-> value]

Await(call, locals) == [out |-> "await", call |-> call, locals |-> locals]

Exit(code) == [out |-> "exit", code |-> code]

Error(message) == [name |-> "Error", message |-> message]

\* a slip: max_results is declared required
ListToolsHandler_required ==
  Return([tools |-> <<
    [name |-> "deep_search",
     description |-> "Perform a deep web search using LinkUp API",
     inputSchema |->
       [type |-> "object",
        properties |->
          [query |-> [type |-> "string", description |-> "Search query"],
           max_results |->
             [type |-> "number", default |-> 5,
              description |-> "Maximum number of results to return"]],
        required |-> <<"query", "max_results">>]]>>])

\* the handler of ListToolsRequestSchema
ListToolsHandler ==
  Return([tools |-> <<
    [name |-> "deep_search",
     description |-> "Perform a deep web search using LinkUp API",
     inputSchema |->
       [type |-> "object",
        properties |->
          [query |-> [type |-> "string", description |-> "Search query"],
           max_results |->
             [type |-> "number", default |-> 5,
              description |-> "Maximum number of results to return"]],
        required |-> <<"query">>]]>>])

\* request.params.arguments?.[key]: undefined when arguments is undefined
\* or has no such property
Argument(request, key) ==
  IF request.arguments.t = "undefined" THEN Undefined
  ELSE request.arguments.v[key]

DefaultMaxResults == 5

\* a slip: the derived value is capped at 10
MaxResults_capped(request) ==
  LET n == Number(Argument(request, "max_results"))
  IN  IF NumberTruthy(n) THEN (IF n.v > 10 THEN 10 ELSE n.v)
      ELSE DefaultMaxResults

\* Number(request.params.arguments?.max_results) || 5
MaxResults(request) ==
  LET n == Number(Argument(request, "max_results"))
  IN  IF NumberTruthy(n) THEN n.v ELSE DefaultMaxResults

\* a slip: the search is a standard one
SearchParams_standard(query) ==
  [query |-> query, depth |-> "standard", outputType |-> "sourcedAnswer",
   includeImages |-> FALSE]

\* the argument of linkupClient.search
SearchParams(query) ==
  [query |-> query, depth |-> "deep", outputType |-> "sourcedAnswer",
   includeImages |-> FALSE]

\* a slip: the switch has no default and every name is searched
CallToolHandler_fallthrough(request) ==
  LET query == String(Argument(request, "query"))
      maxResults == MaxResults(request)
  IN  IF query = <<>>
      THEN Throw(Error("Search query is required"))
      ELSE Await(SearchParams(query),
                 [query |-> query, maxResults |-> maxResults])

\* a slip: the query is not validated
CallToolHandler_novalidate(request) ==
  IF request.name = "deep_search"
  THEN LET query == String(Argument(request, "query"))
           maxResults == MaxResults(request)
       IN  Await(SearchParams(query),
                 [query |-> query, maxResults |-> maxResults])
  ELSE Throw(Error("Unknown tool"))

\* a slip: an unknown tool ends the process
CallToolHandler_exits(request) ==
  IF request.name = "deep_search"
  THEN LET query == String(Argument(request, "query"))
           maxResults == MaxResults(request)
       IN  IF query = <<>>
           THEN Throw(Error("Search query is required"))
           ELSE Await(SearchParams(query),
                      [query |-> query, maxResults |-> maxResults])
  ELSE Exit(1)

\* the handler of CallToolRequestSchema up to its await
CallToolHandler(request) ==
  IF request.name = "deep_search"
  THEN LET query == String(Argument(request, "query"))
           maxResults == MaxResults(request)
       IN  IF query = <<>>
           THEN Throw(Error("Search query is required"))
           ELSE Await(SearchParams(query),
                      [query |-> query, maxResults |-> maxResults])
  ELSE Throw(Error("Unknown tool"))

\* a slip: a rejection is caught and answered as a text block
CallToolResume_swallow(settled) ==
  IF settled.ok
  THEN Return([content |->
                 <<[type |-> "text", text |-> JSONStringify(settled.value)]>>])
  ELSE Return([content |->
                 <<[type |-> "text", text |-> settled.error.message]>>])

\* the handler of CallToolRequestSchema from its await on: a rejection of
\* the awaited promise is thrown on, a fulfilment is wrapped
CallToolResume(settled) ==
  IF settled.ok
  THEN Return([content |->
                 <<[type |-> "text", text |-> JSONStringify(settled.value)]>>])
  ELSE Throw(settled.error)

\* a slip: only an unset key is refused
KeyMissing_undefinedOnly(key) == key.t = "undefined"

\* !process.env.LINKUP_API_KEY
KeyMissing(key) == key.t = "undefined" \/ key.v = <<>>

(***************************************************************************)
(* Bounds and inputs                                                       *)
(***************************************************************************)
\* the number of tools/call invocations suspended at the same time
MaxInFlight == 2

\* the Number values that max_results ranges over: -MaxNumber..MaxNumber
MaxNumber == 6

\* the longest string that max_results ranges over
MaxStringLen == 2

Hi == <<"h", "i">>

EnvKeys == {Undefined, Str(<<>>), Str(<<"k", "1">>)}

ToolNames == {"deep_search", "unknown_tool", ""}

QueryArguments == {Undefined, Str(<<>>), Str(Hi), Arr(<<>>), Num(7)}

Arguments(queries, maxima) ==
  {Undefined} \cup
  {Obj([query |-> q, max_results |-> m]) : q \in queries, m \in maxima}

\* the tools/call requests of a host that overlaps its calls
Requests ==
  [name : ToolNames,
   arguments : Arguments(QueryArguments, {Undefined, Num(3), Str(<<"a">>)})]

StringsUpTo(n) ==
  UNION {[1..k -> {"7", "-", " ", "a"}] : k \in 0..n}

MaxResultsArguments ==
  {Undefined, Null, Bool(TRUE), Bool(FALSE), NaN, Num(1000000),
   Arr(<<>>), Arr(<<Str(<<"7">>)>>), Arr(<<Num(1), Num(2)>>), Obj(<<>>)}
  \cup {Num(n) : n \in (0 - MaxNumber)..MaxNumber}
  \cup {Str(s) : s \in StringsUpTo(MaxStringLen)}

\* the tools/call requests of a host that sends one call at a time
SequentialRequests ==
  [name : {"deep_search"},
   arguments : Arguments({Str(Hi), Str(<<>>)}, MaxResultsArguments)]

\* what linkupClient.search settles with: a sourcedAnswer result, or an error
Answer == <<"a", "n", "s", "w", "e", "r">>

Sources == <<"s", "o", "u", "r", "c", "e", "s">>

\* {answer: "Paris", sources: []}
ResultParis ==
  Obj(<< <<Answer, Str(<<"P", "a", "r", "i", "s">>)>>,
         <<Sources, Arr(<<>>)>> >>)

\* {answer: "a\"b", sources: [{name: "w", url: "u", snippet: "x\ny"}]}
ResultQuoted ==
  Obj(<< <<Answer, Str(<<"a", "\"", "b">>)>>,
         <<Sources,
           Arr(<<Obj(<< <<<<"n", "a", "m", "e">>, Str(<<"w">>)>>,
                        <<<<"u", "r", "l">>, Str(<<"u">>)>>,
                        <<<<"s", "n", "i", "p", "p", "e", "t">>,
                          Str(<<"x", "\n", "y">>)>> >>)>>)>> >>)

SearchResults == {ResultParis, ResultQuoted}

SearchErrors ==
  {[name |-> "LinkupAuthenticationError", message |-> "Unauthorized"],
   [name |-> "TypeError", message |-> "fetch failed"]}

(***************************************************************************)
(* The state                                                               *)
(***************************************************************************)
VARIABLES
  env,           \* process.env.LINKUP_API_KEY
  pc,            \* the position of the module's top-level code
  linkupClient,  \* the const of line 29
  server,        \* the const of line 36
  exitCode,      \* the exit status of the process: 0 unless it failed
  inflight,      \* the invocations of the tools/call handler at their await
  reply          \* the last response written to the transport

vars == <<env, pc, linkupClient, server, exitCode, inflight, reply>>

Idle == [t |-> "idle"]

None == [t |-> "none"]

Slots == 1..MaxInFlight

AllIdle == \A i \in Slots : inflight[i] = Idle

Init ==
  /\ env \in EnvKeys
  /\ pc = "check_key"
  /\ linkupClient = Undefined
  /\ server = Undefined
  /\ exitCode = 0
  /\ inflight = [i \in Slots |-> Idle]
  /\ reply = None

(***************************************************************************)
(* Module load, lines 26 to 124                                            *)
(***************************************************************************)
\* an error thrown by the top-level code is uncaught: the process ends with
\* status 1
CheckKey ==
  /\ pc = "check_key"
  /\ IF KeyMissing(env)
     THEN pc' = "exited" /\ exitCode' = 1
     ELSE pc' = "new_client" /\ UNCHANGED exitCode
  /\ UNCHANGED <<env, linkupClient, server, inflight, reply>>

NewLinkupClient ==
  /\ pc = "new_client"
  /\ linkupClient' = [apiKey |-> env]
  /\ pc' = "new_server"
  /\ UNCHANGED <<env, server, exitCode, inflight, reply>>

NewServer ==
  /\ pc = "new_server"
  /\ server' = [name |-> "deep-search-mcp", version |-> "0.1.0",
                handlers |-> {}, connected |-> FALSE]
  /\ pc' = "set_list_tools"
  /\ UNCHANGED <<env, linkupClient, exitCode, inflight, reply>>

SetListToolsHandler ==
  /\ pc = "set_list_tools"
  /\ server' = [server EXCEPT !.handlers = @ \cup {"tools/list"}]
  /\ pc' = "set_call_tool"
  /\ UNCHANGED <<env, linkupClient, exitCode, inflight, reply>>

SetCallToolHandler ==
  /\ pc = "set_call_tool"
  /\ server' = [server EXCEPT !.handlers = @ \cup {"tools/call"}]
  /\ pc' = "main"
  /\ UNCHANGED <<env, linkupClient, exitCode, inflight, reply>>

\* main: server.connect(transport) resolves
Connect ==
  /\ pc = "main"
  /\ server' = [server EXCEPT !.connected = TRUE]
  /\ pc' = "serving"
  /\ UNCHANGED <<env, linkupClient, exitCode, inflight, reply>>

\* main: server.connect(transport) rejects and the catch of line 121 exits
ConnectFails ==
  /\ pc = "main"
  /\ pc' = "exited"
  /\ exitCode' = 1
  /\ UNCHANGED <<env, linkupClient, server, inflight, reply>>

(***************************************************************************)
(* Requests                                                                *)
(***************************************************************************)
Serving(method) ==
  pc = "serving" /\ server.connected /\ method \in server.handlers

\* what an outcome of the handler invocation in slot i does to the process:
\* a suspended invocation waits in its slot, a settled one is answered
Settle(i, request, searches, upstream, outcome) ==
  CASE outcome.out = "await" ->
         /\ inflight' = [inflight EXCEPT ![i] =
                           [request |-> request, locals |-> outcome.locals,
                            searches |-> Append(searches, outcome.call)]]
         /\ UNCHANGED <<pc, exitCode, reply>>
    [] outcome.out = "exit" ->
         /\ pc' = "exited"
         /\ exitCode' = outcome.code
         /\ inflight' = [j \in Slots |-> Idle]
         /\ UNCHANGED reply
    [] outcome.out \in {"throw", "return"} ->
         /\ inflight' = [inflight EXCEPT ![i] = Idle]
         /\ reply' = [method |-> "tools/call", request |-> request,
                      searches |-> searches, upstream |-> upstream,
                      outcome |-> outcome]
         /\ UNCHANGED <<pc, exitCode>>

ListTools ==
  /\ Serving("tools/list")
  /\ reply' = [method |-> "tools/list", request |-> None, searches |-> <<>>,
               upstream |-> <<>>, outcome |-> ListToolsHandler]
  /\ UNCHANGED <<env, pc, linkupClient, server, exitCode, inflight>>

\* the handler runs to its first await, in the lowest free slot
CallTool(request) ==
  /\ Serving("tools/call")
  /\ \E i \in Slots :
       /\ inflight[i] = Idle
       /\ \A j \in 1..(i - 1) : inflight[j] # Idle
       /\ Settle(i, request, <<>>, <<>>, CallToolHandler(request))
  /\ UNCHANGED <<env, linkupClient, server>>

\* the promise of linkupClient.search is fulfilled
SearchFulfils(i) ==
  /\ pc = "serving"
  /\ inflight[i] # Idle
  /\ \E value \in SearchResults :
       LET settled == [ok |-> TRUE, value |-> value]
       IN  Settle(i, inflight[i].request, inflight[i].searches, <<settled>>,
                  CallToolResume(settled))
  /\ UNCHANGED <<env, linkupClient, server>>

\* the promise of linkupClient.search is rejected
SearchRejects(i) ==
  /\ pc = "serving"
  /\ inflight[i] # Idle
  /\ \E error \in SearchErrors :
       LET settled == [ok |-> FALSE, error |-> error]
       IN  Settle(i, inflight[i].request, inflight[i].searches, <<settled>>,
                  CallToolResume(settled))
  /\ UNCHANGED <<env, linkupClient, server>>

Startup ==
  \/ CheckKey
  \/ NewLinkupClient
  \/ NewServer
  \/ SetListToolsHandler
  \/ SetCallToolHandler
  \/ Connect
  \/ ConnectFails

Next ==
  \/ Startup
  \/ ListTools
  \/ \E request \in Requests : CallTool(request)
  \/ \E i \in Slots : SearchFulfils(i)
  \/ \E i \in Slots : SearchRejects(i)

Spec == Init /\ [][Next]_vars

\* a host that sends a tools/call request only after the reply to the last
NextSequential ==
  \/ Startup
  \/ ListTools
  \/ \E request \in SequentialRequests : AllIdle /\ CallTool(request)
  \/ \E i \in Slots : SearchFulfils(i)
  \/ \E i \in Slots : SearchRejects(i)

SpecSequential == Init /\ [][NextSequential]_vars

(***************************************************************************)
(* Properties                                                              *)
(***************************************************************************)
\* the reply answers a tools/call request
CallReply == reply # None /\ reply.method = "tools/call"

\* the reply answers a tools/list request
ListReply == reply # None /\ reply.method = "tools/list"

\* the suspended invocations
Busy == {i \in Slots : inflight[i] # Idle}

QueryAbsent(request) ==
  \/ request.arguments.t = "undefined"
  \/ request.arguments.v.query.t = "undefined"

InvalidArgument == Throw(Error("Search query is required"))

UnknownTool == Throw(Error("Unknown tool"))

\* C1: a deep_search call whose query argument is absent (arguments {} or
\* no arguments at all) fails with "Search query is required" and makes no
\* external search call.
C1_AbsentQueryIsInvalidArgument ==
  /\ \A i \in Busy :
       ~(inflight[i].request.name = "deep_search"
         /\ QueryAbsent(inflight[i].request))
  /\ (CallReply /\ reply.request.name = "deep_search"
        /\ QueryAbsent(reply.request))
       => (reply.outcome = InvalidArgument /\ reply.searches = <<>>)

\* C2: a call of a tool other than deep_search fails with the UnknownTool
\* error whatever its arguments, and makes no external search call: it is
\* never suspended on a search and its reply records none.
C2_UnknownToolFails ==
  /\ \A i \in Busy : inflight[i].request.name = "deep_search"
  /\ (CallReply /\ reply.request.name # "deep_search")
       => (reply.outcome = UnknownTool /\ reply.searches = <<>>
           /\ reply.upstream = <<>>)

C2_Witness ==
  /\ CallReply
  /\ reply.request.name = "unknown_tool"
  /\ reply.request.arguments.t = "object"
  /\ reply.request.arguments.v.query = Str(Hi)
  /\ reply.outcome = UnknownTool

\* the query arguments of the model whose String coercion is empty, written
\* out: the empty string and the empty array
CoercesToEmpty(request) ==
  /\ request.arguments.t = "object"
  /\ request.arguments.v.query \in {Str(<<>>), Arr(<<>>)}

\* C3: a deep_search call whose query coerces to the empty string fails
\* with the InvalidArgument error before any external call: it is never
\* suspended on a search, and its reply records no search.
C3_EmptyQueryFailsBeforeSearch ==
  /\ \A i \in Busy : ~CoercesToEmpty(inflight[i].request)
  /\ (CallReply /\ reply.request.name = "deep_search"
        /\ CoercesToEmpty(reply.request))
       => (reply.outcome = InvalidArgument /\ reply.searches = <<>>
           /\ reply.upstream = <<>>)

C3_Witness ==
  /\ CallReply
  /\ reply.request.name = "deep_search"
  /\ reply.request.arguments.t = "object"
  /\ reply.request.arguments.v.query = Arr(<<>>)
  /\ reply.outcome = InvalidArgument
  /\ Busy # {}

\* the query argument is a non-empty string
StringQuery(request) ==
  /\ request.name = "deep_search"
  /\ request.arguments.t = "object"
  /\ request.arguments.v.query.t = "string"
  /\ request.arguments.v.query.v # <<>>

\* the one search request of a deep_search call with that query
OneDeepSearch(request) ==
  <<[query |-> request.arguments.v.query.v, depth |-> "deep",
     outputType |-> "sourcedAnswer", includeImages |-> FALSE]>>

\* C4: a deep_search call with a non-empty query string issues exactly one
\* external search, {query, depth: deep, outputType: sourcedAnswer,
\* includeImages: false}, whatever max_results is: while it is suspended
\* and when it is answered, that is the whole list of its searches, and it
\* is never answered without one.
C4_ExactlyOneDeepSearch ==
  /\ \A i \in Busy :
       StringQuery(inflight[i].request)
         => inflight[i].searches = OneDeepSearch(inflight[i].request)
  /\ (CallReply /\ StringQuery(reply.request))
       => (reply.searches = OneDeepSearch(reply.request)
           /\ Len(reply.upstream) = 1)

C4_Witness ==
  /\ CallReply
  /\ StringQuery(reply.request)
  /\ reply.request.arguments.v.max_results = Str(<<"a">>)
  /\ Len(reply.searches) = 1
  /\ \E i \in Busy :
       /\ StringQuery(inflight[i].request)
       /\ inflight[i].request.arguments.v.max_results = Num(3)
       /\ inflight[i].searches = reply.searches

\* the search of the answered call was rejected
UpstreamFailed ==
  CallReply /\ reply.upstream # <<>> /\ ~reply.upstream[1].ok

\* the search of the answered call was fulfilled
UpstreamSucceeded ==
  CallReply /\ reply.upstream # <<>> /\ reply.upstream[1].ok

\* C5: when the external search of a deep_search call fails, the call ends
\* in the upstream error itself (same name, same message), never in a
\* result, and the search was made once: no invocation ever has more than
\* one search.
C5_UpstreamErrorPropagates ==
  /\ \A i \in Busy : Len(inflight[i].searches) = 1
  /\ UpstreamFailed
       => (/\ reply.outcome.out = "throw"
           /\ reply.outcome.error = reply.upstream[1].error
           /\ reply.outcome.error.message = reply.upstream[1].error.message
           /\ Len(reply.searches) = 1
           /\ Len(reply.upstream) = 1)

C5_Witness ==
  /\ UpstreamFailed
  /\ reply.outcome.out = "throw"
  /\ reply.outcome.error.message = "fetch failed"

TextParis ==
  <<"{", "\n", " ", " ", "\"", "a", "n", "s", "w", "e", "r", "\"", ":",
    " ", "\"", "P", "a", "r", "i", "s", "\"", ",", "\n", " ", " ", "\"",
    "s", "o", "u", "r", "c", "e", "s", "\"", ":", " ", "[", "]", "\n", "}">>

TextQuoted ==
  <<"{", "\n", " ", " ", "\"", "a", "n", "s", "w", "e", "r", "\"", ":",
    " ", "\"", "a", "\\", "\"", "b", "\"", ",", "\n", " ", " ", "\"", "s",
    "o", "u", "r", "c", "e", "s", "\"", ":", " ", "[", "\n", " ", " ", " ",
    " ", "{", "\n", " ", " ", " ", " ", " ", " ", "\"", "n", "a", "m", "e",
    "\"", ":", " ", "\"", "w", "\"", ",", "\n", " ", " ", " ", " ", " ",
    " ", "\"", "u", "r", "l", "\"", ":", " ", "\"", "u", "\"", ",", "\n",
    " ", " ", " ", " ", " ", " ", "\"", "s", "n", "i", "p", "p", "e", "t",
    "\"", ":", " ", "\"", "x", "\\", "n", "y", "\"", "\n", " ", " ", " ",
    " ", "}", "\n", " ", " ", "]", "\n", "}">>

\* the formatted JSON text of the results of the model, written out
FormattedJSON(value) ==
  IF value = ResultParis THEN TextParis ELSE TextQuoted

\* C6: when the external search succeeds with R, the reply is a result
\* whose content is exactly one block, of type "text", whose text is the
\* JSON serialization of R with an indentation of 2; it is produced after
\* the one search of that call settled.
C6_ResultIsOneTextBlock ==
  UpstreamSucceeded
    => (/\ reply.outcome.out = "return"
        /\ Len(reply.outcome.value.content) = 1
        /\ reply.outcome.value.content[1].type = "text"
        /\ reply.outcome.value.content[1].text
             = Str(FormattedJSON(reply.upstream[1].value))
        /\ Len(reply.searches) = 1)

C6_Witness ==
  /\ UpstreamSucceeded
  /\ reply.upstream[1].value = ResultQuoted
  /\ reply.outcome.out = "return"
  /\ \E i \in Busy : inflight[i].request # reply.request

\* C7: a server that serves keeps serving: no step, and so no failed
\* invocation, ends the process, sets an exit status, or changes the
\* server, its handlers or the client; and a step that answers with an
\* error leaves every other suspended invocation as it was.
C7_KeepsServing ==
  [][pc = "serving"
       => /\ pc' = "serving"
          /\ exitCode' = 0
          /\ server' = server
          /\ linkupClient' = linkupClient
          /\ Serving("tools/list")' /\ Serving("tools/call")'
          /\ (reply' # reply /\ reply'.outcome.out = "throw")
               => \A i \in Slots :
                    inflight'[i] = inflight[i] \/ inflight'[i] = Idle]_vars

C7_Witness ==
  /\ pc = "serving"
  /\ CallReply
  /\ reply.outcome.out = "throw"
  /\ Busy # {}

\* C8: when LINKUP_API_KEY is unset or empty, the process never gets past
\* the check: no client is created, no server exists, nothing is answered
\* and nothing is suspended, and once ended its exit status is not zero.
C8_MissingKeyIsFatal ==
  (env = Undefined \/ env = Str(<<>>))
    => (/\ pc \in {"check_key", "exited"}
        /\ linkupClient = Undefined
        /\ server = Undefined
        /\ reply = None
        /\ Busy = {}
        /\ pc = "exited" => exitCode # 0)

C8_Witness ==
  /\ env = Str(<<>>)
  /\ pc = "exited"
  /\ exitCode = 1

\* C9: the maxResults of a suspended deep_search call is 5 when the
\* max_results argument is absent, is NaN or 0, or has no numeric value
\* (its coercion is NaN or 0); it is the argument itself when that is any
\* other number, negative or large, and its numeric coercion otherwise.
C9_MaxResultsDefault ==
  \A i \in Busy :
    LET argument == Argument(inflight[i].request, "max_results")
        maxResults == inflight[i].locals.maxResults
    IN  /\ argument \in {Undefined, NaN, Num(0)} => maxResults = 5
        /\ (Number(argument).nan \/ Number(argument).v = 0)
             => maxResults = 5
        /\ (argument.t = "number" /\ argument \notin {NaN, Num(0)})
             => maxResults = argument.v
        /\ ~(Number(argument).nan \/ Number(argument).v = 0)
             => maxResults = Number(argument).v

C9_Witness ==
  \E i \in Busy :
    /\ Argument(inflight[i].request, "max_results") = Num(1000000)
    /\ inflight[i].locals.maxResults = 1000000

\* C10: in every state a tools/list reply is one tool descriptor, named
\* deep_search, with query required and max_results optional with default
\* 5, never an error and without a search; two successive list replies are
\* the same; and the step that answers a list request changes nothing else.
C10_ListToolsIsFixed ==
  /\ [](ListReply
          => /\ reply.outcome.out = "return"
             /\ Len(reply.outcome.value.tools) = 1
             /\ reply.outcome.value.tools[1].name = "deep_search"
             /\ reply.outcome.value.tools[1].inputSchema.required
                  = <<"query">>
             /\ reply.outcome.value.tools[1].inputSchema.properties
                  .max_results.default = 5
             /\ reply.searches = <<>>)
  /\ [][/\ (ListReply /\ ListReply') => reply' = reply
        /\ (ListReply' /\ reply' # reply)
             => UNCHANGED <<env, pc, linkupClient, server, exitCode,
                            inflight>>]_vars

C10_Witness ==
  /\ ListReply
  /\ Busy # {}
  /\ Len(reply.outcome.value.tools) = 1

====
